---- MODULE Spec2Model ----
(***************************************************************************)
(* Model of metvae/models/linear_vae.py: the classes LinearVAE and         *)
(* LinearBatchVAE, their constructor and their three public operations     *)
(* encode, forward and get_reconstruction_loss.                            *)
(*                                                                         *)
(* Tensors are matrices of integers (a sequence of rows).  Real numbers    *)
(* in ILR space are carried in fixed point, Scale units to 1.0, so that    *)
(* log, the projection through Psi, the batch offset and a one-layer       *)
(* encoder are computed, not assumed.  A tensor past the last linear step  *)
(* (softplus stack, decoder, densities) is carried as the expression that  *)
(* determines it: a record naming the operation and its operands.          *)
(***************************************************************************)
EXTENDS Integers, Sequences, FiniteSets, TLC

VARIABLES model, params, validate_args, x, B, last

vars == <<model, params, validate_args, x, B, last>>

-----------------------------------------------------------------------------
(* Bounds of the checked instance.                                         *)

MaxRows == 2

MaxFeatures == 2

MaxHidden == 1

MaxDepth == 2

(* Fixed-point unit of the ILR space: Scale stands for 1.0.                *)
Scale == 100

-----------------------------------------------------------------------------
(* Matrices.                                                               *)

Rows(m) == Len(m)

Cols(m) == Len(m[1])

Shape(m) == <<Rows(m), Cols(m)>>

NoTensor == <<>>

T(m) == [j \in 1..Cols(m) |-> [i \in 1..Rows(m) |-> m[i][j]]]

RECURSIVE Dot(_, _, _)
Dot(u, v, k) == IF k = 0 THEN 0 ELSE u[k] * v[k] + Dot(u, v, k - 1)

(* a @ b, defined when Cols(a) = Rows(b). *)
MatMul(a, b) ==
    [i \in 1..Rows(a) |-> [j \in 1..Cols(b) |->
        Dot(a[i], [k \in 1..Rows(b) |-> b[k][j]], Cols(a))]]

CanMatMul(a, b) == Cols(a) = Rows(b)

(* Broadcasting of b against the shape of a for an in-place a -= b / a += b:
   a keeps its shape, so b's rows must be a's rows or 1, columns likewise. *)
CanBroadcastInto(a, b) ==
    /\ Rows(b) \in {Rows(a), 1}
    /\ Cols(b) \in {Cols(a), 1}

Expand(a, b) ==
    [i \in 1..Rows(a) |-> [j \in 1..Cols(a) |->
        b[IF Rows(b) = 1 THEN 1 ELSE i][IF Cols(b) = 1 THEN 1 ELSE j]]]

MatSub(a, b) == [i \in 1..Rows(a) |-> [j \in 1..Cols(a) |-> a[i][j] - b[i][j]]]

MatAdd(a, b) == [i \in 1..Rows(a) |-> [j \in 1..Cols(a) |-> a[i][j] + b[i][j]]]

MatScale(s, a) == [i \in 1..Rows(a) |-> [j \in 1..Cols(a) |-> s * a[i][j]]]

Fill(n, c, v) == [i \in 1..n |-> [j \in 1..c |-> v]]

(* torch.log on the fixed-point grid: round(Scale * ln v) for v = 1..6.    *)
LogTable == <<0, 69, 110, 139, 161, 179>>

Log(m) == [i \in 1..Rows(m) |-> [j \in 1..Cols(m) |-> LogTable[m[i][j]]]]

-----------------------------------------------------------------------------
(* Inputs: a composition and a batch matrix of every shape up to           *)
(* MaxRows x MaxFeatures, entries 0 and 1 alternating.                     *)

Pattern(n, c, k) == [i \in 1..n |-> [j \in 1..c |-> (i + j + k) % 2]]

Compositions == {Pattern(n, c, 0) : n \in 1..MaxRows, c \in 1..MaxFeatures}

BatchMatrices == {Pattern(n, c, 0) : n \in 1..MaxRows, c \in 1..MaxFeatures}

(* Standard-normal draws on the grid: the pattern of signs varies by entry. *)
NoiseSet(n, c) == {[i \in 1..n |-> [j \in 1..c |-> ((i + j + k) % 3) - 1]] : k \in {0, 1}}

-----------------------------------------------------------------------------
(* Construction: LinearVAE.__init__ and LinearBatchVAE.__init__.           *)

Likelihoods == {"gaussian", "multinomial", "lognormal", "poisson"}

ValidLikelihoods == {"gaussian", "multinomial", "lognormal"}

(* sparse_balance_basis(random_linkage(d))[0]: d - 1 balances over d
   features; balance i contrasts features 1..i with feature i + 1.         *)
ProviderBasis(d) ==
    [i \in 1..(d - 1) |-> [j \in 1..d |->
        IF j <= i THEN 1 ELSE IF j = i + 1 THEN 0 - i ELSE 0]]

(* Bases a caller may pass: square ones, a tall one, and one whose last
   column stores no entry.                                                 *)
SuppliedBases ==
    { <<<<1>>>>,
      <<<<1, 0>>, <<0, 1>>>>,
      <<<<1, 0>>, <<0, 1>>, <<1, 0 - 1>>>>,
      <<<<1, 0>>>> }

Bases == {ProviderBasis(d) : d \in 2..MaxFeatures} \cup SuppliedBases

MaxOf(S) == CHOOSE m \in S : \A n \in S : n <= m

(* torch.sparse_coo_tensor(indices, data) with no size: the shape is the
   largest stored row and column index plus one.                           *)
sparse_coo_tensor(basis) ==
    LET r == MaxOf({i \in 1..Rows(basis) : \E j \in 1..Cols(basis) : basis[i][j] # 0})
        c == MaxOf({j \in 1..Cols(basis) : \E i \in 1..Rows(basis) : basis[i][j] # 0})
    IN  [i \in 1..r |-> [j \in 1..c |-> basis[i][j]]]

(* The realisation of weight.data.normal_(0, init_scale) the instance is
   checked with (every encoder weight the same small value).               *)
WeightDraws == {2}

(* The constructor taking input_dim from Psi.shape[1].                     *)
Mut_init_input_dim_from_columns(cls, hidden_dim, use_analytic_elbo, encoder_depth, likelihood, basis, bias) ==
    LET Psi == sparse_coo_tensor(basis)
    IN  [ cls |-> cls,
          bias |-> bias,
          hidden_dim |-> hidden_dim,
          likelihood |-> likelihood,
          use_analytic_elbo |-> use_analytic_elbo,
          input_dim |-> Cols(Psi),
          Psi |-> Psi,
          encoder_depth |-> encoder_depth ]

LinearVAE_init(cls, hidden_dim, use_analytic_elbo, encoder_depth, likelihood, basis, bias) ==
    LET Psi == sparse_coo_tensor(basis)
    IN  [ cls |-> cls,
          bias |-> bias,
          hidden_dim |-> hidden_dim,
          likelihood |-> likelihood,
          use_analytic_elbo |-> use_analytic_elbo,
          input_dim |-> Rows(Psi),
          Psi |-> Psi,
          encoder_depth |-> encoder_depth ]

(* LinearBatchVAE.__init__: the base constructor with
   use_analytic_elbo = False.                                              *)
LinearBatchVAE_init(hidden_dim, encoder_depth, likelihood, basis, bias) ==
    LinearVAE_init("LinearBatchVAE", hidden_dim, FALSE, encoder_depth, likelihood,
                   basis, bias)

(* The registered parameters: encoder layers (first input_dim -> hidden_dim,
   the others hidden_dim -> hidden_dim), decoder, variational_logvars,
   log_sigma_sq.                                                           *)
InitParams(m, w) ==
    [ encoder |-> [l \in 1..m.encoder_depth |->
                     Fill(m.hidden_dim, IF l = 1 THEN m.input_dim ELSE m.hidden_dim, w)],
      encoder_bias |-> IF m.bias THEN Fill(1, m.hidden_dim, 1) ELSE NoTensor,
      decoder |-> Fill(m.input_dim, m.hidden_dim, 1),
      decoder_bias |-> IF m.bias THEN Fill(1, m.input_dim, 1) ELSE NoTensor,
      variational_logvars |-> [k \in 1..m.hidden_dim |-> 0],
      log_sigma_sq |-> 0 ]

NoCall ==
    [ op |-> "none", status |-> "none", site |-> "", names |-> "",
      shape |-> <<>>, value |-> [t |-> "none"], draws |-> 0, eps |-> NoTensor,
      loglik |-> 0, hx |-> NoTensor, z_mean |-> [t |-> "none"],
      z_sample |-> [t |-> "none"], decoded |-> [t |-> "none"],
      sub |-> NoTensor, add |-> NoTensor ]

Init ==
    /\ \E hidden_dim \in 1..MaxHidden, encoder_depth \in 1..MaxDepth,
          likelihood \in Likelihoods, basis \in Bases, bias \in BOOLEAN,
          w \in WeightDraws :
            /\ \/ \E use_analytic_elbo \in BOOLEAN :
                     model = LinearVAE_init("LinearVAE", hidden_dim, use_analytic_elbo,
                                            encoder_depth, likelihood, basis, bias)
               \/ model = LinearBatchVAE_init(hidden_dim, encoder_depth, likelihood,
                                              basis, bias)
            /\ params = InitParams(model, w)
    /\ validate_args \in IF model.likelihood = "multinomial" THEN BOOLEAN ELSE {TRUE}
    /\ x \in Compositions
    /\ B \in IF model.cls = "LinearBatchVAE" THEN BatchMatrices ELSE {NoTensor}
    /\ last = NoCall

-----------------------------------------------------------------------------
(* Building blocks of the operations.                                      *)

imputer(a) == [i \in 1..Rows(a) |-> [j \in 1..Cols(a) |-> a[i][j] + 1]]

(* catvae.composition.ilr(p, Psi): log(p) projected through Psi, one
   column per row of Psi; a column mismatch is a matmul shape error.       *)
ilr(p, Psi) ==
    IF Cols(p) # Cols(Psi)
    THEN [ok |-> FALSE, v |-> NoTensor]
    ELSE [ok |-> TRUE, v |-> MatMul(Log(p), T(Psi))]

(* (self.Psi @ B.t()).t(), in the fixed-point unit of the ILR space.       *)
batch_effects(Psi, b) ==
    IF ~CanMatMul(Psi, T(b))
    THEN [ok |-> FALSE, v |-> NoTensor]
    ELSE [ok |-> TRUE, v |-> MatScale(Scale, T(MatMul(Psi, T(b))))]

(* nn.Linear: a @ W.t() + bias.                                            *)
Linear(a, W, bias) ==
    LET y == MatMul(a, T(W))
    IN  IF bias = NoTensor THEN y ELSE MatAdd(y, Expand(y, bias))

(* self.encoder(hx): one nn.Linear, or the nn.Sequential of encoder_depth
   linear layers with Softplus between them.  The first layer takes
   input_dim columns; anything else is a matmul shape error.               *)
encoder(m, p, hx) ==
    IF ~CanMatMul(hx, T(p.encoder[1]))
    THEN [ok |-> FALSE, v |-> [t |-> "none"]]
    ELSE LET first == Linear(hx, p.encoder[1], p.encoder_bias)
         IN  [ok |-> TRUE,
              v |-> IF m.encoder_depth > 1
                    THEN [t |-> "Sequential", layers |-> m.encoder_depth, of |-> first]
                    ELSE [t |-> "Linear", m |-> first]]

(* The sample without its noise: z_sample = z_mean.                        *)
Mut_reparameterize_no_noise(z_mean, eps, logvars) ==
    [t |-> "z_sample", mean |-> z_mean, eps |-> NoTensor, logvar |-> logvars]

(* z_mean + eps * torch.exp(0.5 * self.variational_logvars)                *)
reparameterize(z_mean, eps, logvars) ==
    [t |-> "z_sample", mean |-> z_mean, eps |-> eps, logvar |-> logvars]

decoder(m, p, n, z) ==
    [shape |-> <<n, m.input_dim>>,
     v |-> [t |-> "decoder", of |-> z, w |-> p.decoder, bias |-> p.decoder_bias]]

gaussian_kl(z_mean, z_logvar) == [t |-> "gaussian_kl", mean |-> z_mean, logvar |-> z_logvar]

(* Multinomial(total_count = 1).log_prob(x): x is in the support when every
   row sums to the total count.                                            *)
RECURSIVE RowSum(_, _)
RowSum(row, k) == IF k = 0 THEN 0 ELSE row[k] + RowSum(row, k - 1)

InMultinomialSupport(xx) == \A i \in 1..Rows(xx) : RowSum(xx[i], Cols(xx)) = 1

(* The outcome of one step: a status, where it was raised, the value named
   in the message, and the shape and expression of what is returned.       *)
Outcome(status, site, names, shape, value) ==
    [status |-> status, site |-> site, names |-> names, shape |-> shape, value |-> value]

Raised(status, site, names) == Outcome(status, site, names, <<>>, [t |-> "none"])

(* .mean(0).sum() and .mean() reduce to a 0-dim tensor.                    *)
Scalar == <<>>

(* The gaussian branch with no shape requirement at all.                   *)
Mut_gaussian_any_shape(m, p, xx, eta) ==
    Outcome("ok", "", "", Shape(xx),
            [t |-> "gaussian", x |-> xx, eta |-> eta.v, log_sigma_sq |-> p.log_sigma_sq])

(* The gaussian branch: Psi.t() @ log(x + 1).t() (line 72), then the
   elementwise (x - eta) ** 2 of the raw composition against the decoder
   output (line 73); no reduction.                                         *)
gaussian_loglik(m, p, xx, eta) ==
    IF ~CanMatMul(T(m.Psi), T(Log(imputer(xx))))
    THEN Raised("RuntimeError", "recon_model_loglik:72", "")
    ELSE IF ~( /\ (Rows(xx) = eta.shape[1] \/ Rows(xx) = 1 \/ eta.shape[1] = 1)
               /\ (Cols(xx) = eta.shape[2] \/ Cols(xx) = 1 \/ eta.shape[2] = 1) )
    THEN Raised("RuntimeError", "recon_model_loglik:73", "")
    ELSE Outcome("ok", "", "",
                 << IF Rows(xx) = 1 THEN eta.shape[1] ELSE Rows(xx),
                    IF Cols(xx) = 1 THEN eta.shape[2] ELSE Cols(xx) >>,
                 [t |-> "gaussian", x |-> xx, eta |-> eta.v,
                  log_sigma_sq |-> p.log_sigma_sq])

(* The multinomial branch without the final .mean(): one entry per row.   *)
Mut_multinomial_per_sample(m, xx, eta, validate) ==
    Outcome("ok", "", "", <<Rows(xx)>>, [t |-> "multinomial", x |-> xx, eta |-> eta.v])

(* The multinomial branch: logits (Psi.t() @ eta.t()).t(), log_prob(x),
   then .mean() to a 0-dim tensor.  validate is the build's validate_args
   default for torch.distributions.                                        *)
multinomial_loglik(m, xx, eta, validate) ==
    IF Rows(m.Psi) # eta.shape[2]
    THEN Raised("RuntimeError", "recon_model_loglik:78", "")
    ELSE IF ~( /\ (Rows(xx) = eta.shape[1] \/ Rows(xx) = 1 \/ eta.shape[1] = 1)
               /\ Cols(xx) = Cols(m.Psi) )
    THEN Raised("RuntimeError", "recon_model_loglik:79", "")
    ELSE IF validate /\ ~InMultinomialSupport(xx)
    THEN Raised("ValueError", "Multinomial.log_prob", "")
    ELSE Outcome("ok", "", "", Scalar, [t |-> "multinomial", x |-> xx, eta |-> eta.v])

(* The lognormal branch calls F.logsoftmax, which torch.nn.functional does
   not define (the function is log_softmax).                               *)
lognormal_loglik == Raised("AttributeError", "recon_model_loglik:82", "logsoftmax")

(* The else branch with a message that does not name the value.           *)
Mut_unknown_likelihood_unnamed(m) == Raised("ValueError", "recon_model_loglik:91", "")

(* The else branch: ValueError(f'{self.likelihood} has not be properly
   specified.')                                                            *)
unknown_likelihood(m) == Raised("ValueError", "recon_model_loglik:91", m.likelihood)

recon_model_loglik(m, p, xx, eta, validate) ==
    IF m.likelihood = "gaussian" THEN gaussian_loglik(m, p, xx, eta)
    ELSE IF m.likelihood = "multinomial" THEN multinomial_loglik(m, xx, eta, validate)
    ELSE IF m.likelihood = "lognormal" THEN lognormal_loglik
    ELSE unknown_likelihood(m)

(* analytic_exp_recon_loss reading the first layer of any encoder.         *)
Mut_analytic_first_layer(m, p, x_) ==
    Outcome("ok", "", "", Scalar,
            [t |-> "analytic_exp_recon_loss", x |-> x_,
             wv |-> MatMul(p.decoder, p.encoder[1]),
             logvar |-> p.variational_logvars, log_sigma_sq |-> p.log_sigma_sq])

(* analytic_exp_recon_loss(x): reads self.encoder.weight, which only a
   single nn.Linear has.                                                   *)
analytic_exp_recon_loss(m, p, x_) ==
    IF m.encoder_depth > 1
    THEN Raised("AttributeError", "analytic_exp_recon_loss:100", "weight")
    ELSE Outcome("ok", "", "", Scalar,
                 [t |-> "analytic_exp_recon_loss", x |-> x_,
                  wv |-> MatMul(p.decoder, p.encoder[1]),
                  logvar |-> p.variational_logvars, log_sigma_sq |-> p.log_sigma_sq])

analytic_elbo(m, p, x_, z_mean) ==
    LET kl_div == gaussian_kl(z_mean, p.variational_logvars)
        exp_recon_loss == analytic_exp_recon_loss(m, p, x_)
    IN  IF exp_recon_loss.status # "ok"
        THEN exp_recon_loss
        ELSE Outcome("ok", "", "", Scalar,
                     [t |-> "analytic_elbo", kl |-> kl_div, recon |-> exp_recon_loss.value])

-----------------------------------------------------------------------------
(* The operations, each as the record of what one call did.                *)

Call(op) == [NoCall EXCEPT !.op = op]

Finish(r, o) ==
    [r EXCEPT !.status = o.status, !.site = o.site, !.names = o.names,
              !.shape = o.shape, !.value = o.value]

ShapeError(site) == Raised("RuntimeError", site, "")

LinearVAE_encode(m, p, xx) ==
    LET hx == ilr(imputer(xx), m.Psi)
        z == encoder(m, p, hx.v)
        r1 == [Call("encode") EXCEPT !.hx = hx.v]
    IN  IF ~hx.ok THEN Finish(Call("encode"), ShapeError("encode:119"))
        ELSE IF ~z.ok THEN Finish(r1, ShapeError("encode:120"))
        ELSE Finish([r1 EXCEPT !.z_mean = z.v],
                    Outcome("ok", "", "", <<Rows(xx), m.hidden_dim>>, z.v))

(* Lines 128-134 and 145-148: draw eps, sample, decode, evaluate the
   likelihood of the raw x.  reduce is TRUE for forward's .mean(0).sum().  *)
sampling_path(r, m, p, xx, z_mean, eps, validate, reduce) ==
    LET z_sample == reparameterize(z_mean, eps, p.variational_logvars)
        x_out == decoder(m, p, Rows(xx), z_sample)
        kl_div == gaussian_kl(z_mean, p.variational_logvars)
        ll == recon_model_loglik(m, p, xx, x_out, validate)
        r2 == [r EXCEPT !.z_mean = z_mean, !.draws = 1, !.eps = eps,
                        !.z_sample = z_sample, !.decoded = z_sample, !.loglik = 1]
    IN  IF ll.status # "ok" THEN Finish(r2, ll)
        ELSE IF reduce
        THEN Finish(r2, Outcome("ok", "", "", Scalar,
                                [t |-> "loss", kl |-> kl_div, recon |-> ll.value]))
        ELSE Finish(r2, Outcome("ok", "", "", ll.shape, [t |-> "neg", of |-> ll.value]))

(* forward with the test of use_analytic_elbo lost: always samples.        *)
Mut_forward_always_samples(m, p, xx, eps, validate) ==
    LET x_ == ilr(imputer(xx), m.Psi)
        z_mean == encoder(m, p, x_.v)
        r1 == [Call("forward") EXCEPT !.hx = x_.v]
    IN  IF ~x_.ok THEN Finish(Call("forward"), ShapeError("forward:124"))
        ELSE IF ~z_mean.ok THEN Finish(r1, ShapeError("forward:125"))
        ELSE sampling_path(r1, m, p, xx, z_mean.v, eps, validate, TRUE)

LinearVAE_forward(m, p, xx, eps, validate) ==
    LET x_ == ilr(imputer(xx), m.Psi)
        z_mean == encoder(m, p, x_.v)
        r1 == [Call("forward") EXCEPT !.hx = x_.v]
    IN  IF ~x_.ok THEN Finish(Call("forward"), ShapeError("forward:124"))
        ELSE IF ~z_mean.ok THEN Finish(r1, ShapeError("forward:125"))
        ELSE IF ~m.use_analytic_elbo
        THEN sampling_path(r1, m, p, xx, z_mean.v, eps, validate, TRUE)
        ELSE Finish([r1 EXCEPT !.z_mean = z_mean.v],
                    analytic_elbo(m, p, x_.v, z_mean.v))

LinearVAE_get_reconstruction_loss(m, p, xx, eps, validate) ==
    LET x_ == ilr(imputer(xx), m.Psi)
        r0 == Call("get_reconstruction_loss")
        r1 == [r0 EXCEPT !.hx = x_.v]
        a == analytic_exp_recon_loss(m, p, x_.v)
        z_mean == encoder(m, p, x_.v)
    IN  IF ~x_.ok THEN Finish(r0, ShapeError("get_reconstruction_loss:140"))
        ELSE IF m.use_analytic_elbo
        THEN IF a.status # "ok" THEN Finish(r1, a)
             ELSE Finish(r1, Outcome("ok", "", "", a.shape, [t |-> "neg", of |-> a.value]))
        ELSE IF ~z_mean.ok THEN Finish(r1, ShapeError("get_reconstruction_loss:144"))
        ELSE sampling_path(r1, m, p, xx, z_mean.v, eps, validate, FALSE)

LinearBatchVAE_encode(m, p, xx) ==
    LET hx == ilr(imputer(xx), m.Psi)
        z == encoder(m, p, hx.v)
        r1 == [Call("encode") EXCEPT !.hx = hx.v]
    IN  IF ~hx.ok THEN Finish(Call("encode"), ShapeError("encode:168"))
        ELSE IF ~z.ok THEN Finish(r1, ShapeError("encode:170"))
        ELSE Finish([r1 EXCEPT !.z_mean = z.v],
                    Outcome("ok", "", "", <<Rows(xx), m.hidden_dim>>, z.v))

(* hx += batch_effects: the offset added instead of subtracted.            *)
Mut_AddInsteadOfSubtract(hx, be) == MatAdd(hx, Expand(hx, be))

(* hx -= batch_effects: the offset-adjusted encoder input.                 *)
SubtractBatchEffects(hx, be) == MatSub(hx, Expand(hx, be))

(* x_out -= batch_effects: the offset removed a second time.               *)
Mut_SubtractAgain(out, be) ==
    [shape |-> out.shape, v |-> [t |-> "add", a |-> out.v, b |-> MatScale(0 - 1, be)]]

(* x_out += batch_effects                                                  *)
AddBatchEffects(out, be) ==
    [shape |-> out.shape, v |-> [t |-> "add", a |-> out.v, b |-> be]]

LinearBatchVAE_forward(m, p, xx, b, eps, validate) ==
    LET hx == ilr(imputer(xx), m.Psi)
        be == batch_effects(m.Psi, b)
        r0 == Call("forward")
        hx2 == SubtractBatchEffects(hx.v, be.v)
        z_mean == encoder(m, p, hx2)
        z_sample == reparameterize(z_mean.v, eps, p.variational_logvars)
        x_out == AddBatchEffects(decoder(m, p, Rows(xx), z_sample), be.v)
        kl_div == gaussian_kl(z_mean.v, p.variational_logvars)
        ll == recon_model_loglik(m, p, xx, x_out, validate)
        r1 == [r0 EXCEPT !.hx = hx2, !.sub = be.v]
        r2 == [r1 EXCEPT !.z_mean = z_mean.v, !.add = x_out.v.b, !.draws = 1,
                         !.eps = eps, !.z_sample = z_sample, !.decoded = z_sample,
                         !.loglik = 1]
    IN  IF ~hx.ok THEN Finish(r0, ShapeError("forward:174"))
        ELSE IF ~be.ok THEN Finish(r0, ShapeError("forward:175"))
        ELSE IF ~CanBroadcastInto(hx.v, be.v) THEN Finish(r0, ShapeError("forward:176"))
        ELSE IF ~z_mean.ok THEN Finish(r1, ShapeError("forward:177"))
        ELSE IF ll.status # "ok" THEN Finish(r2, ll)
        ELSE Finish(r2, Outcome("ok", "", "", Scalar,
                                [t |-> "loss", kl |-> kl_div, recon |-> ll.value]))

LinearBatchVAE_get_reconstruction_loss(m, p, xx, b, validate) ==
    LET hx == ilr(imputer(xx), m.Psi)
        be == batch_effects(m.Psi, b)
        r0 == Call("get_reconstruction_loss")
        hx2 == SubtractBatchEffects(hx.v, be.v)
        z_mean == encoder(m, p, hx2)
        eta == AddBatchEffects(decoder(m, p, Rows(xx), z_mean.v), be.v)
        ll == recon_model_loglik(m, p, xx, eta, validate)
        r1 == [r0 EXCEPT !.hx = hx2, !.sub = be.v]
        r2 == [r1 EXCEPT !.z_mean = z_mean.v, !.add = eta.v.b, !.decoded = z_mean.v,
                         !.loglik = 1]
    IN  IF ~hx.ok THEN Finish(r0, ShapeError("get_reconstruction_loss:189"))
        ELSE IF ~be.ok THEN Finish(r0, ShapeError("get_reconstruction_loss:190"))
        ELSE IF ~CanBroadcastInto(hx.v, be.v)
        THEN Finish(r0, ShapeError("get_reconstruction_loss:191"))
        ELSE IF ~z_mean.ok THEN Finish(r1, ShapeError("get_reconstruction_loss:192"))
        ELSE IF ll.status # "ok" THEN Finish(r2, ll)
        ELSE Finish(r2, Outcome("ok", "", "", ll.shape, [t |-> "neg", of |-> ll.value]))

-----------------------------------------------------------------------------
(* Actions: one call of an operation on the model, on the caller's current
   composition x (and batch matrix B).  No operation assigns to the model,
   its buffers or its parameters.                                          *)

Encode ==
    /\ model.cls = "LinearVAE"
    /\ last' = LinearVAE_encode(model, params, x)
    /\ UNCHANGED <<model, params, validate_args, x, B>>

(* forward with torch.exp_ applied in place to log_sigma_sq.               *)
Mut_Forward_exp_in_place ==
    /\ model.cls = "LinearVAE"
    /\ \E eps \in NoiseSet(Rows(x), model.hidden_dim) :
          last' = LinearVAE_forward(model, params, x, eps, validate_args)
    /\ params' = [params EXCEPT !.log_sigma_sq = 1]
    /\ UNCHANGED <<model, validate_args, x, B>>

Forward ==
    /\ model.cls = "LinearVAE"
    /\ \E eps \in NoiseSet(Rows(x), model.hidden_dim) :
          last' = LinearVAE_forward(model, params, x, eps, validate_args)
    /\ UNCHANGED <<model, params, validate_args, x, B>>

GetReconstructionLoss ==
    /\ model.cls = "LinearVAE"
    /\ \E eps \in NoiseSet(Rows(x), model.hidden_dim) :
          last' = LinearVAE_get_reconstruction_loss(model, params, x, eps, validate_args)
    /\ UNCHANGED <<model, params, validate_args, x, B>>

BatchEncode ==
    /\ model.cls = "LinearBatchVAE"
    /\ last' = LinearBatchVAE_encode(model, params, x)
    /\ UNCHANGED <<model, params, validate_args, x, B>>

BatchForward ==
    /\ model.cls = "LinearBatchVAE"
    /\ \E eps \in NoiseSet(Rows(x), model.hidden_dim) :
          last' = LinearBatchVAE_forward(model, params, x, B, eps, validate_args)
    /\ UNCHANGED <<model, params, validate_args, x, B>>

BatchGetReconstructionLoss ==
    /\ model.cls = "LinearBatchVAE"
    /\ last' = LinearBatchVAE_get_reconstruction_loss(model, params, x, B, validate_args)
    /\ UNCHANGED <<model, params, validate_args, x, B>>

Next ==
    \/ Encode
    \/ Forward
    \/ GetReconstructionLoss
    \/ BatchEncode
    \/ BatchForward
    \/ BatchGetReconstructionLoss

Spec == Init /\ [][Next]_vars

-----------------------------------------------------------------------------
(* Vocabulary of the properties.                                           *)

Evaluations == {"forward", "get_reconstruction_loss"}

Batch == model.cls = "LinearBatchVAE"

(* The inputs match the basis: x has one column per column of Psi, and B
   (batch-aware model) projects through Psi and broadcasts onto x's rows.  *)
InputsFit ==
    /\ Cols(x) = Cols(model.Psi)
    /\ Batch => (Cols(B) = Cols(model.Psi) /\ Rows(B) \in {Rows(x), 1})

Zero(a) == Fill(Rows(a), Cols(a), 0)

(* The batch matrices of B's shape, and what the encoder would be given
   for one of them.                                                        *)
SameShapeBatches == {Pattern(Rows(B), Cols(B), k) : k \in {0, 1}}

EncoderInput(b2) ==
    SubtractBatchEffects(ilr(imputer(x), model.Psi).v, batch_effects(model.Psi, b2).v)

ZMeanWith(b2) == encoder(model, params, EncoderInput(b2)).v

(* Psi . (B - b2)^T, transposed.                                           *)
ProjectedDifference(b2) == batch_effects(model.Psi, MatSub(B, b2)).v

-----------------------------------------------------------------------------
(* C1 as stated: with a likelihood outside gaussian, multinomial, lognormal,
   every forward and get_reconstruction_loss on fitting inputs fails with
   the configuration error naming the value, whatever use_analytic_elbo.   *)
C1_Original ==
    (model.likelihood \notin ValidLikelihoods /\ last.op \in Evaluations /\ InputsFit)
        => (last.status = "ValueError" /\ last.names = model.likelihood)

(* C1 amended: the configuration error naming the value is raised by every
   evaluation of the sampling path (use_analytic_elbo false) on fitting
   inputs; with use_analytic_elbo true the likelihood module is never
   entered and no configuration error is raised (a loss is returned at
   encoder_depth 1, the encoder-weight error otherwise); inputs that do not
   fit the basis end in a shape error first.                               *)
C1_ConfigErrorOnlyInSamplingPath ==
    (model.likelihood \notin ValidLikelihoods /\ last.op \in Evaluations) =>
        /\ ~InputsFit => last.status = "RuntimeError"
        /\ (InputsFit /\ ~model.use_analytic_elbo) =>
              /\ last.status = "ValueError"
              /\ last.names = model.likelihood
              /\ last.loglik = 1
        /\ (InputsFit /\ model.use_analytic_elbo) =>
              /\ last.loglik = 0
              /\ last.status = IF model.encoder_depth = 1 THEN "ok" ELSE "AttributeError"

C1_Witness ==
    /\ model.likelihood = "poisson"
    /\ ~model.use_analytic_elbo
    /\ last.op = "forward"
    /\ last.status = "ValueError"
    /\ last.names = "poisson"

(* C2 as stated: for the batch-aware model with one encoder layer, the
   latent mean of forward obtained with B and with any other batch matrix
   of the same shape differ (in either order) by the projected difference
   Psi . (B - B2)^T, transposed.                                           *)
C2_Original ==
    (Batch /\ last.op = "forward" /\ last.z_mean.t = "Linear") =>
        \A b2 \in SameShapeBatches :
            LET d == MatSub(last.z_mean.m, ZMeanWith(b2).m)
            IN  d = ProjectedDifference(b2) \/ d = MatScale(0 - 1, ProjectedDifference(b2))

(* C2 amended: what differs by exactly the projected difference is the
   encoder's input in forward and get_reconstruction_loss (the ILR
   coordinates minus the offset): input(B) - input(B2) is
   -(Psi . (B - B2)^T)^T, broadcast over the rows of x; the latent mean is
   the encoder applied to it.  encode takes no batch matrix and subtracts
   no offset.                                                              *)
C2_OffsetShiftsEncoderInput ==
    Batch =>
        /\ (last.op \in Evaluations /\ last.hx # NoTensor) =>
              \A b2 \in SameShapeBatches :
                  MatSub(last.hx, EncoderInput(b2))
                      = Expand(last.hx, MatScale(0 - 1, ProjectedDifference(b2)))
        /\ (last.op = "encode" /\ last.status = "ok") =>
              /\ last.sub = NoTensor
              /\ last.hx = ilr(imputer(x), model.Psi).v

C2_Witness ==
    /\ Batch
    /\ last.op = "forward"
    /\ last.hx # NoTensor
    /\ \E b2 \in SameShapeBatches : MatSub(last.hx, EncoderInput(b2)) # Zero(last.hx)

C4_Original ==
    (last.op \in {"encode", "forward"} /\ last.hx # NoTensor)
        => Cols(last.hx) = model.input_dim - 1

(* C4 amended: the ILR coordinates have exactly input_dim columns, where
   input_dim is the model's attribute, Psi.shape[0]; the composition has
   Psi.shape[1] columns, and there is one ILR row per sample.              *)
C4_IlrHasInputDimColumns ==
    /\ model.input_dim = Rows(model.Psi)
    /\ (last.op \in {"encode", "forward"} /\ last.hx # NoTensor) =>
          /\ Cols(last.hx) = model.input_dim
          /\ Rows(last.hx) = Rows(x)
          /\ Cols(x) = Cols(model.Psi)

C4_Witness ==
    /\ last.op = "encode"
    /\ last.status = "ok"
    /\ Cols(x) = 2
    /\ Cols(last.hx) = 1

(* C5: no call of encode, forward or get_reconstruction_loss, on either
   class, changes Psi, the likelihood / use_analytic_elbo selection or any
   parameter.                                                              *)
C5_CallsChangeNoModelState ==
    [][model' = model /\ params' = params /\ validate_args' = validate_args]_vars

C5_Witness ==
    /\ last.op = "get_reconstruction_loss"
    /\ last.status = "ok"
    /\ last.loglik = 1
    /\ params.log_sigma_sq = 0

(* C6: in the sampling path every forward on fitting inputs draws noise
   exactly once, of the shape of z_mean, and z_sample is built from that
   z_mean, that draw and variational_logvars; the model and its parameters
   have no attribute that holds a draw.                                    *)
C6_ForwardDrawsOnce ==
    /\ DOMAIN model = {"cls", "bias", "hidden_dim", "likelihood", "use_analytic_elbo",
                       "input_dim", "Psi", "encoder_depth"}
    /\ DOMAIN params = {"encoder", "encoder_bias", "decoder", "decoder_bias",
                        "variational_logvars", "log_sigma_sq"}
    /\ (last.op = "forward" /\ ~model.use_analytic_elbo /\ InputsFit) =>
          /\ last.draws = 1
          /\ Shape(last.eps) = <<Rows(x), model.hidden_dim>>
          /\ Shape(last.eps) = Shape(IF last.z_mean.t = "Linear"
                                     THEN last.z_mean.m ELSE last.z_mean.of)
          /\ last.z_sample = [t |-> "z_sample", mean |-> last.z_mean,
                              eps |-> last.eps, logvar |-> params.variational_logvars]
          /\ last.decoded = last.z_sample

C6_Witness ==
    /\ last.op = "forward"
    /\ Batch
    /\ last.status = "ok"
    /\ last.draws = 1
    /\ Rows(last.eps) = 2

(* C7: with use_analytic_elbo true, forward and get_reconstruction_loss
   draw no noise and never enter recon_model_loglik, and a call repeated on
   the same x leaves the same record, for every likelihood setting.        *)
C7_AnalyticPathIsDeterministic ==
    [][(model.use_analytic_elbo /\ last'.op \in Evaluations) =>
          /\ last'.draws = 0
          /\ last'.loglik = 0
          /\ last'.eps = NoTensor
          /\ last.op = last'.op => last' = last]_vars

C7_Witness ==
    /\ model.use_analytic_elbo
    /\ model.likelihood = "multinomial"
    /\ last.op = "forward"
    /\ last.status = "ok"
    /\ last.draws = 0
    /\ last.loglik = 0

(* C8: with use_analytic_elbo true, forward and get_reconstruction_loss
   return a loss only at encoder_depth 1 (and then always, on fitting
   inputs); at encoder_depth > 1 every one ends in an error, the missing
   weight attribute on fitting inputs; encode succeeds at every depth.     *)
C8_AnalyticNeedsOneLayer ==
    model.use_analytic_elbo =>
        /\ (last.op \in Evaluations /\ last.status = "ok") => model.encoder_depth = 1
        /\ (last.op \in Evaluations /\ model.encoder_depth > 1) =>
              /\ last.status = IF InputsFit THEN "AttributeError" ELSE "RuntimeError"
              /\ InputsFit => last.site = "analytic_exp_recon_loss:100"
        /\ (last.op \in Evaluations /\ model.encoder_depth = 1 /\ InputsFit) =>
              last.status = "ok"
        /\ (last.op = "encode" /\ InputsFit) => last.status = "ok"

C8_Witness ==
    /\ model.use_analytic_elbo
    /\ model.encoder_depth > 1
    /\ last.op = "forward"
    /\ last.status = "AttributeError"

(* C9: in the sampling path with the gaussian likelihood, on fitting
   inputs, forward and get_reconstruction_loss complete only when the
   column count of x (Psi.shape[1]) and of the decoder output
   (Psi.shape[0]) are equal or broadcast-compatible, and end in a shape
   error when they are not; the batch-aware model included.                *)
C9_GaussianNeedsCompatibleColumns ==
    (~model.use_analytic_elbo /\ model.likelihood = "gaussian"
        /\ last.op \in Evaluations /\ InputsFit) =>
        LET cx == Cols(model.Psi)
            ce == Rows(model.Psi)
            compatible == cx = ce \/ cx = 1 \/ ce = 1
        IN  /\ last.status \in {"ok", "RuntimeError"}
            /\ last.status = "ok" => compatible
            /\ ~compatible => last.status = "RuntimeError"

C9_Witness ==
    /\ Batch
    /\ model.likelihood = "gaussian"
    /\ last.op = "forward"
    /\ InputsFit
    /\ Rows(model.Psi) = 3
    /\ Cols(model.Psi) = 2
    /\ last.status = "RuntimeError"

(* C10: on fitting inputs the batch-aware forward draws noise once and
   decodes z_sample, the batch-aware get_reconstruction_loss draws none and
   decodes z_mean, so a repeated call of it leaves the same record, while
   the base get_reconstruction_loss in sampling mode draws on every call;
   both batch-aware operations add to the decoder output the offset
   (Psi . B^T)^T they subtracted from the ILR input.                       *)
C10_BatchReconstructionUsesMean ==
    [][/\ (Batch /\ last'.op = "forward" /\ InputsFit) =>
              /\ last'.draws = 1
              /\ last'.decoded = last'.z_sample
              /\ last'.z_sample.eps = last'.eps
       /\ (Batch /\ last'.op = "get_reconstruction_loss" /\ InputsFit) =>
              /\ last'.draws = 0
              /\ last'.eps = NoTensor
              /\ last'.decoded = last'.z_mean
              /\ last'.z_mean.t # "none"
       /\ (Batch /\ last'.op \in Evaluations /\ InputsFit) =>
              /\ last'.sub = batch_effects(model.Psi, B).v
              /\ last'.add = last'.sub
       /\ (Batch /\ last.op = "get_reconstruction_loss"
              /\ last'.op = "get_reconstruction_loss") => last' = last
       /\ (~Batch /\ ~model.use_analytic_elbo
              /\ last'.op = "get_reconstruction_loss" /\ InputsFit) =>
              last'.draws = 1]_vars

C10_Witness ==
    /\ Batch
    /\ last.op = "get_reconstruction_loss"
    /\ last.status = "ok"
    /\ last.draws = 0
    /\ last.add # Zero(last.add)
    /\ last.add = last.sub

====
